---- MODULE Spec2Model ----
(***************************************************************************)
(* Model of amalga_doc_parser: the line-oriented markdown parser           *)
(* (src/src/amalga_doc_parser/parser.py) and the document model with its   *)
(* dictionary serialization (src/src/amalga_doc_parser/models.py).         *)
(*                                                                         *)
(* Text is a sequence of one-character strings.  Section and Document      *)
(* objects live in two heaps (sequences indexed by object identity), so    *)
(* that Python's reference semantics (a Section reachable from the parser  *)
(* and from a Document) is kept.  0 stands for None.                       *)
(***************************************************************************)
EXTENDS Integers, Sequences, FiniteSets, TLC

\* ------------------------------------------------------------------ bounds

\* Total number of input lines read over all parse_file calls of a behaviour.
MaxLines == 4
\* Number of parse_file calls of a behaviour that get to open their file.
MaxParses == 2

\* The same two, for the behaviours that also serialize documents.
MaxModelLines == 5

MaxModelParses == 1

None == 0

\* ------------------------------------------------------------- characters

Digits == <<"0", "1", "2", "3", "4", "5", "6", "7", "8", "9">>

DigitChars == {Digits[i] : i \in 1..Len(Digits)}

\* str.isspace / regex \s over the characters the inputs are built from
WhiteSpace == {" ", "\t"}

\* ---------------------------------------------------------------- strings

\* number of leading characters of s (from position i on) that lie in set S
RECURSIVE RunFrom(_, _, _)
RunFrom(s, i, S) ==
    IF i <= Len(s) /\ s[i] \in S THEN 1 + RunFrom(s, i + 1, S) ELSE 0

\* s[i:] of Python, positions counted from 1
Drop(s, n) == SubSeq(s, n + 1, Len(s))

Take(s, n) == SubSeq(s, 1, n)

\* str.rstrip()
RECURSIVE RStrip(_)
RStrip(s) ==
    IF s # <<>> /\ s[Len(s)] \in WhiteSpace THEN RStrip(Take(s, Len(s) - 1)) ELSE s

\* str.lstrip()
LStrip(s) == Drop(s, RunFrom(s, 1, WhiteSpace))

\* str.strip()
Strip(s) == RStrip(LStrip(s))

\* str.strip("|")
RECURSIVE RStripBar(_)
RStripBar(s) ==
    IF s # <<>> /\ s[Len(s)] = "|" THEN RStripBar(Take(s, Len(s) - 1)) ELSE s

StripBar(s) == RStripBar(Drop(s, RunFrom(s, 1, {"|"})))

\* str.split(sep) for a one-character separator: always at least one piece
RECURSIVE Split(_, _)
Split(s, sep) ==
    LET n == RunFrom(s, 1, {c \in {s[i] : i \in 1..Len(s)} : c # sep})
    IN  IF n = Len(s) THEN <<s>>
        ELSE <<Take(s, n)>> \o Split(Drop(s, n + 1), sep)

\* "\n".join(lines) + "\n" when lines is not empty
RECURSIVE JoinLines(_)
JoinLines(lines) ==
    IF lines = <<>> THEN <<>>
    ELSE lines[1] \o <<"\n">> \o JoinLines(Tail(lines))

\* str.splitlines() over the line break "\n"
RECURSIVE SplitLines(_)
SplitLines(s) ==
    LET n == RunFrom(s, 1, {c \in {s[i] : i \in 1..Len(s)} : c # "\n"})
    IN  IF s = <<>> THEN <<>>
        ELSE IF n = Len(s) THEN <<s>>
        ELSE <<Take(s, n)>> \o SplitLines(Drop(s, n + 1))

\* str(n) for n >= 0
RECURSIVE IntToStr(_)
IntToStr(n) ==
    IF n < 10 THEN <<Digits[n + 1]>>
    ELSE IntToStr(n \div 10) \o <<Digits[(n % 10) + 1]>>

\* ------------------------------------------------------ line classification

Min(a, b) == IF a < b THEN a ELSE b

\* Deepest heading level the header pattern captures: #{1,6}
MaxHeaderLevel == 6

\* Length of the greedy match of ((?:\d+\.)*\d*\.?\s*) at the start of r.
RECURSIVE NumberedGroups(_, _)
NumberedGroups(r, i) ==
    LET d == RunFrom(r, i, DigitChars)
    IN  IF d >= 1 /\ i + d <= Len(r) /\ r[i + d] = "."
        THEN NumberedGroups(r, i + d + 1)
        ELSE i

NumberPrefixLen(r) ==
    LET i1 == NumberedGroups(r, 1)
        i2 == i1 + RunFrom(r, i1, DigitChars)
        i3 == IF i2 <= Len(r) /\ r[i2] = "." THEN i2 + 1 ELSE i2
        i4 == i3 + RunFrom(r, i3, WhiteSpace)
    IN  i4 - 1

\* SECTION_HEADER_PATTERN.match(line), for a line without trailing white
\* space: the three groups, or matched = FALSE.
\* The final (.+) needs one character, so the groups before it give back
\* what they took when they would leave nothing.
HeaderMatch(line) ==
    LET n    == RunFrom(line, 1, {"#"})
        h    == Min(Min(n, MaxHeaderLevel), Len(line) - 1)
        rest == LStrip(Drop(line, h))
        r    == IF rest = <<>> THEN Drop(line, h) ELSE rest
        g    == NumberPrefixLen(r)
        k    == IF g >= Len(r) THEN Len(r) - 1 ELSE g
    IN  IF Len(line) >= 2 /\ line[1] = "#"
        THEN [matched |-> TRUE, hashes |-> h,
              number_part |-> Take(r, k), title_part |-> Drop(r, k)]
        ELSE [matched |-> FALSE, hashes |-> 0,
              number_part |-> <<>>, title_part |-> <<>>]

\* TABLE_ROW_PATTERN.match(line): ^\|(.+)\|$
TableRowMatch(line) ==
    Len(line) >= 3 /\ line[1] = "|" /\ line[Len(line)] = "|"

\* One cell of TABLE_SEPARATOR_PATTERN from position i: \s*[-:]+[-:]\s*\|
\* gives the position after the cell, or 0 when no cell starts at i.
SeparatorCell(line, i) ==
    LET a == i + RunFrom(line, i, WhiteSpace)
        m == RunFrom(line, a, {"-", ":"})
        b == a + m + RunFrom(line, a + m, WhiteSpace)
    IN  IF m >= 2 /\ b <= Len(line) /\ line[b] = "|" THEN b + 1 ELSE 0

RECURSIVE SeparatorCells(_, _)
SeparatorCells(line, i) ==
    LET j == SeparatorCell(line, i)
    IN  IF j = 0 THEN FALSE
        ELSE IF j = Len(line) + 1 THEN TRUE
        ELSE SeparatorCells(line, j)

\* TABLE_SEPARATOR_PATTERN.match(line): ^\|(\s*[-:]+[-:]\s*\|)+$
TableSeparatorMatch(line) ==
    Len(line) >= 1 /\ line[1] = "|" /\ SeparatorCells(line, 2)

\* REFERENCE_PATTERN.match(line): ^\[(\d+)\]\s+(.+)$, for a line without
\* trailing white space (parse_file matches after rstrip)
ReferenceMatch(line) ==
    LET d  == RunFrom(line, 2, DigitChars)
        w  == RunFrom(line, d + 3, WhiteSpace)
        ok == /\ Len(line) >= 1 /\ line[1] = "["
              /\ d >= 1
              /\ d + 2 <= Len(line) /\ line[d + 2] = "]"
              /\ w >= 1
              /\ d + 2 + w < Len(line)
    IN  IF ok
        THEN [matched |-> TRUE, id |-> SubSeq(line, 2, d + 1),
              text |-> Drop(line, d + 2 + w)]
        ELSE [matched |-> FALSE, id |-> <<>>, text |-> <<>>]

\* TABLE_CAPTION_PATTERN.match(line): ^(?:Table|TABLE)\s+[\d\.]+:?\s+(.+)$
TableCaptionMatch(line) ==
    LET w1 == RunFrom(line, 6, WhiteSpace)
        n  == RunFrom(line, 6 + w1, DigitChars \cup {"."})
        c  == 6 + w1 + n
        c2 == IF c <= Len(line) /\ line[c] = ":" THEN c + 1 ELSE c
        w2 == RunFrom(line, c2, WhiteSpace)
    IN  /\ Len(line) >= 5
        /\ Take(line, 5) \in {<<"T", "a", "b", "l", "e">>, <<"T", "A", "B", "L", "E">>}
        /\ w1 >= 1
        /\ n >= 1
        /\ w2 >= 1
        /\ c2 + w2 <= Len(line)

\* ------------------------------------------------------------- title of file

LowerCase ==
    <<"a", "b", "c", "d", "e", "f", "g", "h", "i", "j", "k", "l", "m">> \o
    <<"n", "o", "p", "q", "r", "s", "t", "u", "v", "w", "x", "y", "z">>

UpperCase ==
    <<"A", "B", "C", "D", "E", "F", "G", "H", "I", "J", "K", "L", "M">> \o
    <<"N", "O", "P", "Q", "R", "S", "T", "U", "V", "W", "X", "Y", "Z">>

Letters == {LowerCase[i] : i \in 1..Len(LowerCase)} \cup {UpperCase[i] : i \in 1..Len(UpperCase)}

Upper(c) ==
    IF \E i \in 1..Len(LowerCase) : LowerCase[i] = c
    THEN UpperCase[CHOOSE i \in 1..Len(LowerCase) : LowerCase[i] = c]
    ELSE c

Lower(c) ==
    IF \E i \in 1..Len(UpperCase) : UpperCase[i] = c
    THEN LowerCase[CHOOSE i \in 1..Len(UpperCase) : UpperCase[i] = c]
    ELSE c

\* str.replace("_", " ")
ReplaceUnderscore(s) == [i \in 1..Len(s) |-> IF s[i] = "_" THEN " " ELSE s[i]]

\* str.title(): a letter after a non-letter is upper-cased, the others lower-cased
TitleCase(s) ==
    [i \in 1..Len(s) |->
        IF i = 1 \/ s[i - 1] \notin Letters THEN Upper(s[i]) ELSE Lower(s[i])]

\* title if title else Path(filepath).stem.replace("_", " ").title()
DocumentTitle(title, stem) ==
    IF title # <<>> THEN title ELSE TitleCase(ReplaceUnderscore(stem))

\* ------------------------------------------------------------------ inputs

\* Raw lines a file is made of (before rstrip)
Lines ==
    { <<"#", " ", "A">>,                    \* level-1 header
      <<"#", "#", " ", "1", ".", " ", "B">>, \* level-2 header with numbering
      <<"#", "#", "#", " ", "C">>,          \* level-3 header
      <<"|", "x", "|">>,                    \* table row
      <<" ">>,                              \* blank line
      <<"[", "1", "]", " ", "r">>,          \* citation
      <<"t">> }                             \* plain text

\* Raw lines of the files whose documents are serialized
ModelLines ==
    { <<"#", "#", " ", "1", ".", " ", "B">>,
      <<"#", "#", "#", " ", "C">>,
      <<"|", "x", "|", "y", "|">>,
      <<"[", "1", "]", " ", "r">> }

\* File name stems of existing files, and explicit titles (<<>>: no title given)
Stems == {<<"a", "_", "b">>}

NoTitle == {<<>>}

Titles == {<<"R">>}

\* ------------------------------------------------------------------- state

VARIABLES
    sections,             \* heap of Section objects (models.py Section)
    documents,            \* heap of Document objects (models.py Document)
    document,             \* DocumentParser.document: a Document identity or None
    current_section,      \* DocumentParser.current_section: a Section identity or None
    section_stack,        \* DocumentParser.section_stack: Section identities
    table_buffer,         \* DocumentParser.table_buffer: buffered lines
    is_in_table,          \* DocumentParser.is_in_table
    table_count,          \* DocumentParser.table_count
    seen_document_title,  \* DocumentParser.seen_document_title
    current_content,      \* parse_file's local current_content
    pc,                   \* "idle", or "scanning" inside parse_file's loop
    result,               \* outcome of the last parse_file call
    returned,             \* the Document the last completed parse_file returned
    last,                 \* the last operation taken and what it saw
    level1_read,          \* level-1 header lines read by the current parse_file call
    nread,                \* lines read so far, over all calls
    missing_sections,     \* the expected names the last _validate_document call logged
                          \* as missing
    lines_read,           \* the lines read so far, over all calls, each with the
                          \* parser's fields at the time (where recorded)
    wire,                 \* the caller's serialized form: a to_dict dictionary or JSON
    loaded                \* the Document the last from_dict / from_json call built

parserVars ==
    <<document, current_section, section_stack, table_buffer, is_in_table,
      table_count, seen_document_title>>

vars ==
    <<sections, documents, document, current_section, section_stack,
      table_buffer, is_in_table, table_count, seen_document_title,
      current_content, pc, result, returned, last, level1_read, nread,
      lines_read, missing_sections, wire, loaded>>

\* ------------------------------------------------------------ models.py

\* Section(name=..., raw_name=..., level=...): content "" and no subsections
NewSection(name, raw_name, level) ==
    [name |-> name, raw_name |-> raw_name, content |-> <<>>, level |-> level,
     subsections |-> <<>>]

\* Document(title=...): empty lists, metadata holding the creation timestamp
NewDocument(title, now) ==
    [title |-> title, sections |-> <<>>, tables |-> <<>>, references |-> <<>>,
     metadata |-> [created_at |-> IntToStr(now)]]

\* Section.add_subsection
AddSubsection(secs, parent, child) ==
    [secs EXCEPT ![parent].subsections = Append(@, child)]

\* Document.add_section
AddSection(docs, doc, sec) == [docs EXCEPT ![doc].sections = Append(@, sec)]

\* Document.add_table
AddTable(docs, doc, table) == [docs EXCEPT ![doc].tables = Append(@, table)]

\* AddReference keeping one Reference per id
AddReferenceUnique(docs, doc, ref) ==
    IF \E i \in 1..Len(docs[doc].references) : docs[doc].references[i].id = ref.id
    THEN docs
    ELSE [docs EXCEPT ![doc].references = Append(@, ref)]

\* Document.add_reference
AddReference(docs, doc, ref) == [docs EXCEPT ![doc].references = Append(@, ref)]

\* Reference.to_dict, Table.to_dict
ReferenceToDict(ref) == [id |-> ref.id, text |-> ref.text]

TableToDict(table) ==
    [id |-> table.id, caption |-> table.caption, headers |-> table.headers,
     rows |-> table.rows]

\* Section.to_dict of the Section object `sec` of the heap
RECURSIVE SectionToDict(_, _)
SectionToDict(secs, sec) ==
    [name |-> secs[sec].name, raw_name |-> secs[sec].raw_name,
     content |-> secs[sec].content, level |-> secs[sec].level,
     subsections |-> [i \in 1..Len(secs[sec].subsections) |->
                         SectionToDict(secs, secs[sec].subsections[i])]]

\* {**self.metadata, "tables": [...], "references": [...]}
MetadataToDict(doc) ==
    [k \in DOMAIN doc.metadata \cup {"tables", "references"} |->
        IF k = "tables"
        THEN [i \in 1..Len(doc.tables) |-> TableToDict(doc.tables[i])]
        ELSE IF k = "references"
        THEN [i \in 1..Len(doc.references) |-> ReferenceToDict(doc.references[i])]
        ELSE doc.metadata[k]]

\* Document.to_dict
DocumentToDict(secs, doc) ==
    [title |-> doc.title,
     sections |-> [i \in 1..Len(doc.sections) |-> SectionToDict(secs, doc.sections[i])],
     metadata |-> MetadataToDict(doc)]

\* dict.get(key, default)
Get(data, key, default) == IF key \in DOMAIN data THEN data[key] ELSE default

\* dict.pop(key, default): what is left of the dictionary
Pop(data, key) == [k \in DOMAIN data \ {key} |-> data[k]]

\* Reference.from_dict, Table.from_dict
ReferenceFromDict(data) == [id |-> data["id"], text |-> data["text"]]

TableFromDict(data) ==
    [id |-> data["id"], caption |-> data["caption"],
     headers |-> Get(data, "headers", <<>>), rows |-> Get(data, "rows", <<>>)]

\* Section.from_dict: the Section built, with the Sections below it
RECURSIVE SectionFromDict(_)
SectionFromDict(data) ==
    [name |-> data["name"], raw_name |-> Get(data, "raw_name", <<>>),
     content |-> data["content"], level |-> data["level"],
     subsections |-> [i \in 1..Len(Get(data, "subsections", <<>>)) |->
                         SectionFromDict(data["subsections"][i])]]

\* DocumentFromDict reading the tables and references at the top level of
\* `data`, where to_dict does not put them
DocumentFromDictTopLevel(data) ==
    LET metadata    == Get(data, "metadata", <<>>)
        tables_data == Get(data, "tables", <<>>)
        refs_data   == Get(data, "references", <<>>)
        popped      == Pop(Pop(metadata, "tables"), "references")
    IN  [title |-> data["title"],
         sections |-> [i \in 1..Len(Get(data, "sections", <<>>)) |->
                          SectionFromDict(data["sections"][i])],
         tables |-> [i \in 1..Len(tables_data) |-> TableFromDict(tables_data[i])],
         references |-> [i \in 1..Len(refs_data) |-> ReferenceFromDict(refs_data[i])],
         metadata |-> popped,
         built |-> TRUE]

\* Document.from_dict: the Document built, and the metadata dictionary of
\* `data` after the two pops (the Document's metadata is that same dictionary)
DocumentFromDict(data) ==
    LET metadata    == Get(data, "metadata", <<>>)
        tables_data == Get(metadata, "tables", <<>>)
        refs_data   == Get(metadata, "references", <<>>)
        popped      == Pop(Pop(metadata, "tables"), "references")
    IN  [title |-> data["title"],
         sections |-> [i \in 1..Len(Get(data, "sections", <<>>)) |->
                          SectionFromDict(data["sections"][i])],
         tables |-> [i \in 1..Len(tables_data) |-> TableFromDict(tables_data[i])],
         references |-> [i \in 1..Len(refs_data) |-> ReferenceFromDict(refs_data[i])],
         metadata |-> popped,
         built |-> TRUE]

\* ------------------------------------------------------------------- json

\* int(text) for a text of digits
RECURSIVE StrToInt(_)
StrToInt(s) ==
    IF s = <<>> THEN 0
    ELSE 10 * StrToInt(Take(s, Len(s) - 1))
         + (CHOOSE d \in 0..9 : Digits[d + 1] = s[Len(s)])

\* JSON values: strings, numbers written in digits, arrays, objects as the
\* sequence of their members
JsonString(s) == [t |-> "string", v |-> s]

JsonNumber(n) == [t |-> "number", v |-> IntToStr(n)]

JsonArray(items) == [t |-> "array", v |-> items]

JsonObject(members) == [t |-> "object", v |-> members]

JsonStrings(list) == JsonArray([i \in 1..Len(list) |-> JsonString(list[i])])

\* json.dumps of the dictionaries to_dict builds
JsonReference(data) ==
    JsonObject(<< <<"id", JsonString(data["id"])>>, <<"text", JsonString(data["text"])>> >>)

JsonTable(data) ==
    JsonObject(<< <<"id", JsonString(data["id"])>>,
                  <<"caption", JsonString(data["caption"])>>,
                  <<"headers", JsonStrings(data["headers"])>>,
                  <<"rows", JsonArray([i \in 1..Len(data["rows"]) |->
                                          JsonStrings(data["rows"][i])])>> >>)

RECURSIVE JsonSection(_)
JsonSection(data) ==
    JsonObject(<< <<"name", JsonString(data["name"])>>,
                  <<"raw_name", JsonString(data["raw_name"])>>,
                  <<"content", JsonString(data["content"])>>,
                  <<"level", JsonNumber(data["level"])>>,
                  <<"subsections", JsonArray([i \in 1..Len(data["subsections"]) |->
                                                 JsonSection(data["subsections"][i])])>> >>)

JsonDumps(data) ==
    JsonObject(<< <<"title", JsonString(data["title"])>>,
                  <<"sections", JsonArray([i \in 1..Len(data["sections"]) |->
                                              JsonSection(data["sections"][i])])>>,
                  <<"metadata",
                    JsonObject(<< <<"created_at", JsonString(data["metadata"]["created_at"])>>,
                                  <<"tables",
                                    JsonArray([i \in 1..Len(data["metadata"]["tables"]) |->
                                                  JsonTable(data["metadata"]["tables"][i])])>>,
                                  <<"references",
                                    JsonArray([i \in 1..Len(data["metadata"]["references"]) |->
                                                  JsonReference(data["metadata"]["references"][i])])>>
                               >>)>> >>)

\* json.loads: an object becomes a dictionary (the last member of a name wins)
RECURSIVE JsonLoads(_)
JsonLoads(j) ==
    IF j.t = "string" THEN j.v
    ELSE IF j.t = "number" THEN StrToInt(j.v)
    ELSE IF j.t = "array" THEN [i \in 1..Len(j.v) |-> JsonLoads(j.v[i])]
    ELSE [k \in {j.v[i][1] : i \in 1..Len(j.v)} |->
             JsonLoads(j.v[CHOOSE i \in 1..Len(j.v) :
                              /\ j.v[i][1] = k
                              /\ \A m \in 1..Len(j.v) : j.v[m][1] = k => m <= i][2])]

\* ------------------------------------------------------------- parser.py

\* FlushContent replacing the content of the section (= for +=)
FlushContentOverwrite(secs, cur, content) ==
    [secs EXCEPT ![cur].content = JoinLines(content)]

\* self.current_section.content += "\n".join(current_content) + "\n"
FlushContent(secs, cur, content) ==
    [secs EXCEPT ![cur].content = @ \o JoinLines(content)]

\* re.sub(r"^\d+\.(?:\d+\.)*\s*", "", section_name).strip()
CleanSectionName(section_name) ==
    LET i == NumberedGroups(section_name, 1)
    IN  IF i > 1
        THEN Strip(Drop(section_name, i - 1 + RunFrom(section_name, i, WhiteSpace)))
        ELSE Strip(section_name)

RawName(title_part, number_part) ==
    Strip(IF number_part # <<>>
          THEN number_part \o <<" ">> \o title_part
          ELSE title_part)

\* FindParent accepting a parent of the same level (<= for <)
FindParentSameLevel(secs, stack, level) ==
    LET found == {i \in 1..Len(stack) : secs[stack[i]].level <= level}
    IN  IF found = {} THEN 0
        ELSE CHOOSE i \in found : \A j \in found : j <= i

\* FindParent taking the top of the stack whatever its level
FindParentTop(secs, stack, level) == Len(stack)

\* The closest entry of the stack, from the top down, whose level is lower
\* than `level`: its position, or 0 when there is none.
FindParent(secs, stack, level) ==
    LET found == {i \in 1..Len(stack) : secs[stack[i]].level < level}
    IN  IF found = {} THEN 0
        ELSE CHOOSE i \in found : \A j \in found : j <= i

\* PushAfter keeping the entries above the parent
PushOnTop(stack, i, sec) == Append(stack, sec)

\* self.section_stack[:i+1] + [section]: the entries up to the parent at
\* position i, then the new section
PushAfter(stack, i, sec) == Take(stack, i) \o <<sec>>

\* if level == 1 and not self.seen_document_title
IsTitleMarker(level, seen) == level = 1 /\ ~seen

\* DocumentParser._process_section_header on the parser's fields
ProcessSectionHeader(secs, docs, doc, stack, cur, seen, title_part, level, number_part) ==
    LET raw_name == RawName(title_part, number_part)
        id       == Len(secs) + 1
        created  == Append(secs, NewSection(CleanSectionName(raw_name), raw_name, level))
        i        == FindParent(secs, stack, level)
    IN  IF IsTitleMarker(level, seen)
        THEN [sections |-> secs, documents |-> docs, section_stack |-> stack,
              current_section |-> cur, seen_document_title |-> TRUE]
        ELSE IF level = 1 \/ i = 0
        THEN [sections |-> created, documents |-> AddSection(docs, doc, id),
              section_stack |-> <<id>>,
              current_section |-> id, seen_document_title |-> seen]
        ELSE [sections |-> AddSubsection(created, stack[i], id), documents |-> docs,
              section_stack |-> PushAfter(stack, i, id),
              current_section |-> id, seen_document_title |-> seen]

Contains(s, c) == \E i \in 1..Len(s) : s[i] = c

\* [cell.strip() for cell in line.strip("|").split("|")]
Cells(line) ==
    LET parts == Split(StripBar(line), "|")
    IN  [i \in 1..Len(parts) |-> Strip(parts[i])]

\* if len(self.table_buffer) >= 2: the header row is taken
MinTableLines == 2

TableHeaders(buffer) ==
    IF Len(buffer) >= MinTableLines /\ Contains(buffer[1], "|")
    THEN Cells(buffer[1])
    ELSE <<>>

RECURSIVE RowsOf(_)
RowsOf(data_rows) ==
    IF data_rows = <<>> THEN <<>>
    ELSE IF data_rows[1] # <<>> /\ Contains(data_rows[1], "|")
    THEN <<Cells(data_rows[1])>> \o RowsOf(Tail(data_rows))
    ELSE RowsOf(Tail(data_rows))

\* TableRows taking the separator line for the first data row: buffer[1:]
TableRowsFromSeparator(buffer) ==
    IF Len(buffer) >= MinTableLines THEN RowsOf(Drop(buffer, MinTableLines - 1)) ELSE <<>>

TableRows(buffer) ==
    IF Len(buffer) >= MinTableLines THEN RowsOf(Drop(buffer, MinTableLines)) ELSE <<>>

\* f"T{self.table_count}"
TableId(count) == <<"T">> \o IntToStr(count)

\* f"Table {self.table_count}"
DefaultCaption(count) == <<"T", "a", "b", "l", "e", " ">> \o IntToStr(count)

\* Number of trailing content lines searched for a caption: lines[-5:]
CaptionWindow == 5

\* LastLines without the window: the whole content is searched
LastLinesAll(lines) == lines

LastLines(lines) ==
    IF Len(lines) > CaptionWindow THEN Drop(lines, Len(lines) - CaptionWindow) ELSE lines

\* for line in lines[-5:]: the first line matching the caption pattern
FindCaption(content, default) ==
    LET lines == LastLines(SplitLines(content))
        hits  == {i \in 1..Len(lines) : TableCaptionMatch(lines[i])}
    IN  IF hits = {} THEN default
        ELSE Strip(lines[CHOOSE i \in hits : \A j \in hits : i <= j])

\* HasSection without the test: the content is read whatever current_section is
HasSectionUnchecked(cur) == TRUE

\* if self.current_section: guards the read of current_section.content
HasSection(cur) == cur # None

\* DocumentParser._process_table_buffer on the parser's fields.  raised:
\* reading .content of None (AttributeError).
ProcessTableBuffer(secs, docs, doc, buffer, in_table, count, cur) ==
    LET n       == count + 1
        caption == IF HasSection(cur)
                   THEN FindCaption(secs[cur].content, DefaultCaption(n))
                   ELSE DefaultCaption(n)
        table   == [id |-> TableId(n), caption |-> caption,
                    headers |-> TableHeaders(buffer), rows |-> TableRows(buffer)]
    IN  IF buffer = <<>>
        THEN [documents |-> docs, table_buffer |-> buffer, is_in_table |-> FALSE,
              table_count |-> count, raised |-> FALSE]
        ELSE IF HasSection(cur) /\ cur = None
        THEN [documents |-> docs, table_buffer |-> buffer, is_in_table |-> in_table,
              table_count |-> n, raised |-> TRUE]
        ELSE [documents |-> AddTable(docs, doc, table), table_buffer |-> <<>>,
              is_in_table |-> FALSE, table_count |-> n, raised |-> FALSE]

\* ---------------------------------------------------------------- actions

NoLine == [op |-> "init", kind |-> "none", level |-> 0]

\* Nothing serialized yet, nothing loaded yet
NoWire == [form |-> "none", of |-> None, data |-> <<>>]

NoDocument == [title |-> <<>>, sections |-> <<>>, tables |-> <<>>, references |-> <<>>,
               metadata |-> <<>>, built |-> FALSE]

serialVars == <<wire, loaded>>

Init ==
    /\ sections = <<>>
    /\ documents = <<>>
    /\ document = None
    /\ current_section = None
    /\ section_stack = <<>>
    /\ table_buffer = <<>>
    /\ is_in_table = FALSE
    /\ table_count = 0
    /\ seen_document_title = FALSE
    /\ current_content = <<>>
    /\ pc = "idle"
    /\ result = "none"
    /\ returned = None
    /\ last = NoLine
    /\ level1_read = 0
    /\ nread = 0
    /\ lines_read = <<>>
    /\ missing_sections = <<>>
    /\ wire = NoWire
    /\ loaded = NoDocument

\* DocumentParser(): a new parser instance takes the place of the old one
NewParser ==
    /\ pc = "idle"
    /\ document' = None
    /\ current_section' = None
    /\ section_stack' = <<>>
    /\ table_buffer' = <<>>
    /\ is_in_table' = FALSE
    /\ table_count' = 0
    /\ seen_document_title' = FALSE
    /\ last' = [op |-> "new", kind |-> "none", level |-> 0]
    /\ UNCHANGED <<sections, documents, current_content, pc, result, returned,
                   level1_read, nread, lines_read, missing_sections, serialVars>>

\* ParseFileMissing with the Document created before the path is tested
ParseFileMissingAfterDocument ==
    /\ pc = "idle"
    /\ documents' = Append(documents, NewDocument(<<>>, Len(documents)))
    /\ document' = Len(documents) + 1
    /\ result' = "ParserError"
    /\ returned' = None
    /\ last' = [op |-> "missing", kind |-> "none", level |-> 0]
    /\ UNCHANGED <<sections, current_section, section_stack, table_buffer,
                   is_in_table, table_count, seen_document_title,
                   current_content, pc, level1_read, nread, lines_read, missing_sections, serialVars>>

\* parse_file on a path that does not exist: raise ParserError
ParseFileMissing ==
    /\ pc = "idle"
    /\ result' = "ParserError"
    /\ returned' = None
    /\ last' = [op |-> "missing", kind |-> "none", level |-> 0]
    /\ UNCHANGED <<sections, documents, parserVars, current_content, pc,
                   level1_read, nread, lines_read, missing_sections, serialVars>>

\* parse_file on an existing path, up to the start of the loop over the
\* lines; the title argument is drawn from `titles`, and at most `max` calls
\* get this far in a behaviour
ParseFileOpenWith(titles, max) ==
    /\ pc = "idle"
    /\ Len(documents) < max
    /\ \E title \in titles, stem \in Stems :
          documents' = Append(documents, NewDocument(DocumentTitle(title, stem), Len(documents)))
    /\ document' = Len(documents) + 1
    /\ current_content' = <<>>
    /\ pc' = "scanning"
    /\ result' = "none"
    /\ returned' = None
    /\ last' = [op |-> "open", kind |-> "none", level |-> 0]
    /\ level1_read' = 0
    /\ UNCHANGED <<sections, current_section, section_stack, table_buffer,
                   is_in_table, table_count, seen_document_title, nread,
                   lines_read, missing_sections, serialVars>>

\* if current_content and self.current_section
ShouldFlush(content, cur) == content # <<>> /\ cur # None

\* The except clause of parse_file: the error is wrapped and raised
Raise ==
    /\ pc' = "idle"
    /\ result' = "ParserError"
    /\ returned' = None

\* One pass of the loop body on a header line
ReadHeader(line, m) ==
    LET flushed == IF ShouldFlush(current_content, current_section)
                   THEN FlushContent(sections, current_section, current_content)
                   ELSE sections
        p == ProcessSectionHeader(flushed, documents, document, section_stack,
                                  current_section, seen_document_title,
                                  m.title_part, m.hashes, m.number_part)
    IN  /\ sections' = p.sections
        /\ documents' = p.documents
        /\ section_stack' = p.section_stack
        /\ current_section' = p.current_section
        /\ seen_document_title' = p.seen_document_title
        /\ current_content' = <<>>
        /\ last' = [op |-> "read", kind |-> "header", level |-> m.hashes]
        /\ level1_read' = IF m.hashes = 1 THEN level1_read + 1 ELSE level1_read
        /\ UNCHANGED <<document, table_buffer, is_in_table, table_count,
                       pc, result, returned>>

\* One pass of the loop body on a table row or separator line
ReadTableLine(line) ==
    /\ IF current_content # <<>> /\ ~is_in_table
       THEN /\ sections' = IF current_section # None
                           THEN FlushContent(sections, current_section, current_content)
                           ELSE sections
            /\ current_content' = <<>>
       ELSE UNCHANGED <<sections, current_content>>
    /\ table_buffer' = Append(table_buffer, line)
    /\ is_in_table' = TRUE
    /\ last' = [op |-> "read", kind |-> "table", level |-> 0]
    /\ UNCHANGED <<level1_read, documents, document, current_section, section_stack, table_count,
                   seen_document_title, pc, result, returned>>

\* One pass of the loop body on a blank line while a table is buffered
ReadBlankInTable ==
    LET t == ProcessTableBuffer(sections, documents, document, table_buffer,
                                is_in_table, table_count, current_section)
    IN  /\ documents' = t.documents
        /\ table_buffer' = t.table_buffer
        /\ is_in_table' = t.is_in_table
        /\ table_count' = t.table_count
        /\ IF t.raised THEN Raise ELSE UNCHANGED <<pc, result, returned>>
        /\ last' = [op |-> "read", kind |-> "blank", level |-> 0]
        /\ UNCHANGED <<sections, document, current_section, section_stack,
                       seen_document_title, current_content, level1_read>>

\* ReadOther with the two routes exclusive: a citation is not kept as text
ReadOtherExclusive(line) ==
    LET m == ReferenceMatch(line)
    IN  /\ documents' = IF m.matched
                        THEN AddReference(documents, document, [id |-> m.id, text |-> m.text])
                        ELSE documents
        /\ current_content' = IF current_section # None /\ ~m.matched
                              THEN Append(current_content, line)
                              ELSE current_content
        /\ last' = [op |-> "read", kind |-> IF m.matched THEN "citation" ELSE "text",
                    level |-> 0]
        /\ UNCHANGED <<sections, parserVars, pc, result, returned, level1_read>>

\* One pass of the loop body on any other line: citation and plain text
ReadOther(line) ==
    LET m == ReferenceMatch(line)
    IN  /\ documents' = IF m.matched
                        THEN AddReference(documents, document, [id |-> m.id, text |-> m.text])
                        ELSE documents
        /\ current_content' = IF current_section # None
                              THEN Append(current_content, line)
                              ELSE current_content
        /\ last' = [op |-> "read", kind |-> IF m.matched THEN "citation" ELSE "text",
                    level |-> 0]
        /\ UNCHANGED <<sections, parserVars, pc, result, returned, level1_read>>

\* for line in f: the line `raw` of the file goes through the loop body; at
\* most `max` lines are read in a behaviour
ReadRaw(raw, max) ==
    /\ pc = "scanning"
    /\ nread < max
    /\ nread' = nread + 1
    /\ UNCHANGED <<missing_sections, serialVars>>
    /\ LET line == RStrip(raw)
           m    == HeaderMatch(line)
       IN  IF m.matched THEN ReadHeader(line, m)
           ELSE IF TableRowMatch(line) \/ TableSeparatorMatch(line)
           THEN ReadTableLine(line)
           ELSE IF is_in_table /\ Strip(line) = <<>> THEN ReadBlankInTable
           ELSE ReadOther(line)

\* The next line of the file is any line of `from`
ReadLineFrom(from, max) ==
    \E raw \in from : ReadRaw(raw, max) /\ UNCHANGED lines_read

\* The line `raw` as the loop sees it, with the parser's fields when it is read
Seen(raw) ==
    [line |-> RStrip(raw), doc |-> document, current |-> current_section,
     created |-> Len(sections), in_table |-> is_in_table,
     seen_title |-> seen_document_title]

\* The lines recorded as read by the parse_file call that created Document d
RECURSIVE ReadInto(_, _)
ReadInto(read, d) ==
    IF read = <<>> THEN <<>>
    ELSE (IF read[1].doc = d THEN <<read[1]>> ELSE <<>>) \o ReadInto(Tail(read), d)

\* ReadLineFrom, keeping the record of the lines read
ReadRecordedFrom(from, max) ==
    \E raw \in from : ReadRaw(raw, max) /\ lines_read' = Append(lines_read, Seen(raw))

\* self.expected_sections
expected_sections ==
    <<<<"E", "x", "e", "c", "u", "t", "i", "v", "e", " ", "S", "u", "m", "m", "a", "r", "y">>,
      <<"P", "l", "a", "t", "f", "o", "r", "m", " ", "O", "v", "e", "r", "v", "i", "e", "w">>,
      <<"C", "o", "r", "e", " ", "C", "a", "p", "a", "b", "i", "l", "i", "t", "i", "e", "s">>,
      <<"D", "a", "t", "a", " ", "M", "a", "n", "a", "g", "e", "m", "e", "n", "t", " ", "A", "r", "c", "h", "i", "t", "e", "c", "t", "u", "r", "e">>,
      <<"U", "s", "e", "r", " ", "E", "x", "p", "e", "r", "i", "e", "n", "c", "e", " ", "a", "n", "d", " ", "I", "n", "t", "e", "r", "f", "a", "c", "e", " ", "D", "e", "s", "i", "g", "n">>,
      <<"T", "e", "c", "h", "n", "o", "l", "o", "g", "i", "c", "a", "l", " ", "F", "o", "u", "n", "d", "a", "t", "i", "o", "n", "s">>,
      <<"C", "o", "m", "p", "e", "t", "i", "t", "i", "v", "e", " ", "D", "i", "f", "f", "e", "r", "e", "n", "t", "i", "a", "t", "i", "o", "n">>,
      <<"L", "e", "s", "s", "o", "n", "s", " ", "L", "e", "a", "r", "n", "e", "d">>>>

\* str.lower()
LowerOf(s) == [i \in 1..Len(s) |-> Lower(s[i])]

\* a in b, for strings
IsIn(a, b) == \E i \in 0..(Len(b) - Len(a)) : SubSeq(b, i + 1, i + Len(a)) = a

\* found_sections: the names of the top-level sections, then those of the
\* subsections of the first top-level section
FoundSections(secs, doc) ==
    LET top == [i \in 1..Len(doc.sections) |-> secs[doc.sections[i]].name]
    IN  IF doc.sections # <<>> /\ secs[doc.sections[1]].subsections # <<>>
        THEN top \o [k \in 1..Len(secs[doc.sections[1]].subsections) |->
                        secs[secs[doc.sections[1]].subsections[k]].name]
        ELSE top

\* any(expected.lower() in section.lower() for section in found_sections)
IsFound(expected, found) ==
    \E i \in 1..Len(found) : IsIn(LowerOf(expected), LowerOf(found[i]))

\* DocumentParser._validate_document: the list missing_sections it logs
RECURSIVE MissingAmong(_, _)
MissingAmong(expected, found) ==
    IF expected = <<>> THEN <<>>
    ELSE (IF IsFound(expected[1], found) THEN <<>> ELSE <<expected[1]>>)
         \o MissingAmong(Tail(expected), found)

ValidateDocument(secs, doc) == MissingAmong(expected_sections, FoundSections(secs, doc))

\* UnfinishedTable never holding: the buffer is left as it is at the end
UnfinishedTableIgnored(in_table, buffer) == FALSE

\* if self.is_in_table and self.table_buffer: a table is still buffered
UnfinishedTable(in_table, buffer) == in_table /\ buffer # <<>>

\* End of the file: the remaining content is flushed, _finalize_parsing
\* extracts a table still buffered and runs _validate_document, which only
\* writes to the log, and the document is returned.
EndOfInput ==
    LET flushed == IF ShouldFlush(current_content, current_section)
                   THEN FlushContent(sections, current_section, current_content)
                   ELSE sections
        t == IF UnfinishedTable(is_in_table, table_buffer)
             THEN ProcessTableBuffer(flushed, documents, document, table_buffer,
                                     is_in_table, table_count, current_section)
             ELSE [documents |-> documents, table_buffer |-> table_buffer,
                   is_in_table |-> is_in_table, table_count |-> table_count,
                   raised |-> FALSE]
    IN  /\ pc = "scanning"
        /\ sections' = flushed
        /\ documents' = t.documents
        /\ table_buffer' = t.table_buffer
        /\ is_in_table' = t.is_in_table
        /\ table_count' = t.table_count
        /\ pc' = "idle"
        /\ result' = IF t.raised THEN "ParserError" ELSE "returned"
        /\ returned' = IF t.raised THEN None ELSE document
        /\ missing_sections' = IF t.raised THEN missing_sections
                               ELSE ValidateDocument(flushed, t.documents[document])
        /\ last' = [op |-> "eof", kind |-> "none", level |-> 0]
        /\ UNCHANGED <<document, current_section, section_stack, seen_document_title,
                       current_content, level1_read, nread, lines_read, serialVars>>

ParseFileOpen == ParseFileOpenWith(NoTitle, MaxParses)

ReadLine == ReadLineFrom(Lines, MaxLines)

Next ==
    \/ NewParser
    \/ ParseFileMissing
    \/ ParseFileOpen
    \/ ReadLine
    \/ EndOfInput

Spec == Init /\ [][Next]_vars

\* doc.to_dict(): the caller keeps the dictionary
ToDict ==
    /\ pc = "idle"
    /\ \E d \in 1..Len(documents) :
          /\ wire' = [form |-> "dict", of |-> d,
                      data |-> DocumentToDict(sections, documents[d])]
          /\ last' = [op |-> "to_dict", kind |-> "none", level |-> 0]
    /\ UNCHANGED <<sections, documents, parserVars, current_content, pc, result,
                   returned, level1_read, nread, lines_read, missing_sections, loaded>>

\* Document.from_dict(data) on the dictionary the caller keeps
FromDict ==
    /\ pc = "idle"
    /\ wire.form = "dict"
    /\ LET built == DocumentFromDict(wire.data)
       IN  /\ loaded' = built
           /\ wire' = [wire EXCEPT !.data =
                          IF "metadata" \in DOMAIN wire.data
                          THEN [wire.data EXCEPT !["metadata"] = built.metadata]
                          ELSE wire.data]
    /\ last' = [op |-> "from_dict", kind |-> "none", level |-> 0]
    /\ UNCHANGED <<sections, documents, parserVars, current_content, pc, result,
                   returned, level1_read, nread, lines_read, missing_sections>>

\* doc.to_json(): the caller keeps the JSON text
ToJson ==
    /\ pc = "idle"
    /\ \E d \in 1..Len(documents) :
          /\ wire' = [form |-> "json", of |-> d,
                      data |-> JsonDumps(DocumentToDict(sections, documents[d]))]
          /\ last' = [op |-> "to_json", kind |-> "none", level |-> 0]
    /\ UNCHANGED <<sections, documents, parserVars, current_content, pc, result,
                   returned, level1_read, nread, lines_read, missing_sections, loaded>>

\* Document.from_json(text) on the JSON text the caller keeps
FromJson ==
    /\ pc = "idle"
    /\ wire.form = "json"
    /\ loaded' = DocumentFromDict(JsonLoads(wire.data))
    /\ last' = [op |-> "from_json", kind |-> "none", level |-> 0]
    /\ UNCHANGED <<sections, documents, parserVars, current_content, pc, result,
                   returned, level1_read, nread, lines_read, missing_sections, wire>>

ParseFileOpenTitled == ParseFileOpenWith(Titles, MaxModelParses)

ReadModelLine == ReadLineFrom(ModelLines, MaxModelLines)

\* Parsing, and serializing the documents parsed
NextModels ==
    \/ ParseFileOpenTitled
    \/ ReadModelLine
    \/ EndOfInput
    \/ ToDict
    \/ FromDict
    \/ ToJson
    \/ FromJson

SpecModels == Init /\ [][NextModels]_vars

\* The input of the concrete scenario: a title line, a section with one line
\* of text, a table of one row, a blank line and a citation
Example ==
    <<<<"#", " ", "R", "e", "p", "o", "r", "t">>,
      <<"#", "#", " ", "E", "x", "e", "c", "u", "t", "i", "v", "e", " ", "S", "u", "m", "m", "a", "r", "y">>,
      <<"S", "o", "m", "e", " ", "t", "e", "x", "t", ".">>,
      <<"|", " ", "N", "a", "m", "e", " ", "|", " ", "V", "a", "l", "u", "e", " ", "|">>,
      <<"|", "-", "-", "-", "|", "-", "-", "-", "|">>,
      <<"|", " ", "A", " ", "|", " ", "1", " ", "|">>,
      <<>>,
      <<"[", "1", "]", " ", "E", "x", "a", "m", "p", "l", "e", " ", "c", "i", "t", "a", "t", "i", "o", "n", ".">>>>

\* The i-th line of a file that is the scenario's input with some of its lines
\* left blank
ExampleChoices(i) == IF i \in DOMAIN Example THEN {Example[i], <<>>} ELSE {}

MaxExampleParses == 1

ParseFileOpenExample == ParseFileOpenWith(NoTitle, MaxExampleParses)

ReadExampleLine ==
    ReadRecordedFrom(ExampleChoices(Len(ReadInto(lines_read, document)) + 1),
                     MaxExampleParses * Len(Example))

\* One parser reading the scenario's input, or the input with blanked lines
NextExample ==
    \/ ParseFileOpenExample
    \/ ReadExampleLine
    \/ EndOfInput

SpecExample == Init /\ [][NextExample]_vars

\* Lines of a file with tables: a section header, a header row of two cells,
\* a separator, a data row of one cell, a blank line and a line of text
TableLines ==
    { <<"#", "#", " ", "S">>,
      <<"|", "a", "|", "b", "|">>,
      <<"|", "-", "-", "|">>,
      <<"|", " ", "c", " ", "|">>,
      <<>>,
      <<"t">> }

MaxTableInput == 5
MaxTableParses == 1

ParseFileOpenTables == ParseFileOpenWith(NoTitle, MaxTableParses)

ReadTableInput == ReadRecordedFrom(TableLines, MaxTableInput)

\* One parser reading files with tables
NextTables ==
    \/ ParseFileOpenTables
    \/ ReadTableInput
    \/ EndOfInput

SpecTables == Init /\ [][NextTables]_vars

\* Lines of a file with citations: a section header, a deeper header, a
\* table row and two citations
CitationLines ==
    { <<"#", "#", " ", "S">>,
      <<"#", "#", "#", " ", "C">>,
      <<"|", "x", "|">>,
      <<"[", "1", "]", " ", "r">>,
      <<"[", "2", "2", "]", " ", " ", "q", " ">> }

MaxCitationInput == 5
MaxCitationParses == 1

ParseFileOpenCitations == ParseFileOpenWith(NoTitle, MaxCitationParses)

ReadCitationInput == ReadRecordedFrom(CitationLines, MaxCitationInput)

\* One parser reading files with citations
NextCitations ==
    \/ ParseFileOpenCitations
    \/ ReadCitationInput
    \/ EndOfInput

SpecCitations == Init /\ [][NextCitations]_vars

\* Lines of a file with text: a section header, two lines of text, a table
\* row and a blank line
ContentInput ==
    { <<"#", "#", " ", "S">>,
      <<"t">>,
      <<"u", " ">>,
      <<"|", "x", "|">>,
      <<>> }

MaxContentInput == 5
MaxContentParses == 1

ParseFileOpenContent == ParseFileOpenWith(NoTitle, MaxContentParses)

ReadContentInput == ReadRecordedFrom(ContentInput, MaxContentInput)

\* One parser reading files with text in and around sections and tables
NextContent ==
    \/ ParseFileOpenContent
    \/ ReadContentInput
    \/ EndOfInput

SpecContent == Init /\ [][NextContent]_vars

CaptionHeader == <<"#", "#", " ", "S">>
CaptionColon == <<"T", "a", "b", "l", "e", " ", "1", ":", " ", "c">>
CaptionCapitals == <<"T", "A", "B", "L", "E", " ", "2", " ", "d">>
CaptionText == <<"t">>
CaptionRow == <<"|", "x", "|">>

\* The next line of a file with captions.  The file holds one section header,
\* before it nothing but table rows, after it caption lines (one with a
\* colon, one in capitals without a colon) and lines of text, with tables
\* ended by a blank line or by the end of the file.
CaptionInput ==
    IF current_section = None THEN {CaptionHeader, CaptionRow}
    ELSE IF is_in_table THEN {CaptionRow, CaptionText, <<>>}
    ELSE {CaptionColon, CaptionCapitals, CaptionText, CaptionRow}

MaxCaptionInput == 8
MaxCaptionParses == 1

ParseFileOpenCaptions == ParseFileOpenWith(NoTitle, MaxCaptionParses)

ReadCaptionInput == ReadLineFrom(CaptionInput, MaxCaptionInput)

\* One parser reading files with table captions
NextCaptions ==
    \/ ParseFileOpenCaptions
    \/ ReadCaptionInput
    \/ EndOfInput

SpecCaptions == Init /\ [][NextCaptions]_vars

\* Lines of a file with headers: levels 1 and 2 with a title, two marker
\* characters alone, seven marker characters with a title, and a line of text
HeaderInput ==
    { <<"#", " ", "A">>,
      <<"#", "#", " ", "B">>,
      <<"#", "#">>,
      <<"#", "#", "#", "#", "#", "#", "#", " ", "x">>,
      <<"t">> }

MaxHeaderInput == 4
MaxHeaderParses == 1

ParseFileOpenHeaders == ParseFileOpenWith(NoTitle, MaxHeaderParses)

ReadHeaderInput == ReadRecordedFrom(HeaderInput, MaxHeaderInput)

\* One parser reading files with headers
NextHeaders ==
    \/ ParseFileOpenHeaders
    \/ ReadHeaderInput
    \/ EndOfInput

SpecHeaders == Init /\ [][NextHeaders]_vars

\* Lines of a file with expected sections: a section of another name, an
\* expected name at level 2, one in other letter case at level 3 and one at
\* level 4
ValidationInput ==
    { <<"#", "#", " ", "A">>,
      <<"#", "#", " ", "E", "x", "e", "c", "u", "t", "i", "v", "e", " ", "S", "u", "m", "m", "a", "r", "y">>,
      <<"#", "#", "#", " ", "P", "L", "A", "T", "F", "O", "R", "M", " ", "o", "v", "e", "r", "v", "i", "e", "w", " ", "2">>,
      <<"#", "#", "#", "#", " ", "L", "e", "s", "s", "o", "n", "s", " ", "L", "e", "a", "r", "n", "e", "d">> }

MaxValidationInput == 4
MaxValidationParses == 1

ParseFileOpenValidation == ParseFileOpenWith(NoTitle, MaxValidationParses)

ReadValidationInput == ReadLineFrom(ValidationInput, MaxValidationInput)

\* One parser reading files with sections of the expected names
NextValidation ==
    \/ ParseFileOpenValidation
    \/ ReadValidationInput
    \/ EndOfInput

SpecValidation == Init /\ [][NextValidation]_vars

\* Lines of the files read one after the other by one parser: headers of
\* levels 1 to 3 and a line of text
ReuseInput ==
    { <<"#", " ", "A">>,
      <<"#", "#", " ", "B">>,
      <<"#", "#", "#", " ", "C">>,
      <<"t">> }

MaxReuseInput == 4
MaxReuseParses == 2

ParseFileOpenReuse == ParseFileOpenWith(NoTitle, MaxReuseParses)

ReadReuseInput == ReadRecordedFrom(ReuseInput, MaxReuseInput)

\* One parser reading several files
NextReuse ==
    \/ ParseFileOpenReuse
    \/ ReadReuseInput
    \/ EndOfInput

SpecReuse == Init /\ [][NextReuse]_vars

\* ------------------------------------------------------------------ claims

TopSections(d) == documents[d].sections

LastOf(s) == s[Len(s)]

IsHeaderStep == last.op = "read" /\ last.kind = "header"

\* C1: every Section has a level strictly smaller than the level of each of
\* its direct subsections, in every tree the parser has built.
C1_ChildLevelGreater ==
    \A p \in 1..Len(sections) :
        \A k \in 1..Len(sections[p].subsections) :
            sections[p].level < sections[sections[p].subsections[k]].level

\* A returned document in which a section that follows a sibling of its own
\* level has got a subsection.
C1_Witness ==
    /\ result = "returned"
    /\ \E k \in 2..Len(TopSections(returned)) :
          /\ sections[TopSections(returned)[k]].level =
                sections[TopSections(returned)[k - 1]].level
          /\ sections[TopSections(returned)[k]].subsections # <<>>

\* C2: the i-th table of every Document a parse returns has id "T<i>".
C2_TableIdsSequential ==
    result = "returned" =>
        \A i \in 1..Len(documents[returned].tables) :
            documents[returned].tables[i].id = TableId(i)

\* C3: when buffering ends (blank line or end of input) with fewer than 2
\* buffered lines, no Table is appended, the table counter stays and the
\* buffer is dropped.
C3_ShortBufferDiscarded ==
    [][(/\ pc = "scanning"
        /\ is_in_table
        /\ Len(table_buffer) < MinTableLines
        /\ \/ last'.op = "eof"
           \/ last'.op = "read" /\ last'.kind = "blank")
       => /\ documents'[document].tables = documents[document].tables
          /\ table_count' = table_count
          /\ table_buffer' = <<>>
          /\ ~is_in_table']_vars

\* C4: a Header line ends table buffering: after the header is processed no
\* line read before it is still buffered.
C4_HeaderEndsBuffering ==
    IsHeaderStep => table_buffer = <<>> /\ ~is_in_table

\* C5: a header at level L > 1 read when no section on the stack has a level
\* below L is appended to the document's top-level list, the stack becomes
\* that one section, and the parse goes on without an error.
C5_OrphanGoesToTop ==
    [][(/\ last'.op = "read" /\ last'.kind = "header"
        /\ pc = "scanning"
        /\ last'.level > 1
        /\ \A i \in 1..Len(section_stack) :
              sections[section_stack[i]].level >= last'.level)
       => /\ Len(sections') = Len(sections) + 1
          /\ sections'[Len(sections')].level = last'.level
          /\ documents'[document].sections =
                Append(documents[document].sections, Len(sections'))
          /\ section_stack' = <<Len(sections')>>
          /\ \A p \in 1..Len(sections) :
                sections'[p].subsections = sections[p].subsections
          /\ pc' = "scanning"
          /\ result' = "none"]_vars

\* A header below level 1 has just been put at top level although the
\* stack was not empty: the top-level section before it is as deep or deeper.
C5_Witness ==
    /\ IsHeaderStep
    /\ last.level > 1
    /\ Len(TopSections(document)) >= 2
    /\ LastOf(TopSections(document)) = current_section
    /\ section_stack = <<current_section>>
    /\ sections[TopSections(document)[Len(TopSections(document)) - 1]].level >= last.level

\* C6: the first level-1 header of a parse creates no Section and leaves the
\* tree's shape, the stack and the current section as they are; every later
\* level-1 header creates a top-level Section.
C6_FirstLevel1IsTitleMarker ==
    [][(last'.op = "read" /\ last'.kind = "header" /\ last'.level = 1 /\ pc = "scanning")
       => IF level1_read = 0
          THEN /\ Len(sections') = Len(sections)
               /\ \A p \in 1..Len(sections) :
                     sections'[p].subsections = sections[p].subsections
               /\ documents' = documents
               /\ section_stack' = section_stack
               /\ current_section' = current_section
          ELSE /\ Len(sections') = Len(sections) + 1
               /\ documents'[document].sections =
                     Append(documents[document].sections, Len(sections'))]_vars

\* C8: parse_file on a path that does not exist raises ParserError before any
\* line is read, returns nothing and leaves the parser's document, and every
\* Document and Section, as they were.
C8_MissingFileRaises ==
    [][last'.op = "missing"
       => /\ result' = "ParserError"
          /\ returned' = None
          /\ document' = document
          /\ documents' = documents
          /\ sections' = sections
          /\ nread' = nread
          /\ pc' = "idle"]_vars

\* A failed call on a parser that still holds the document of an earlier parse
C8_Witness ==
    /\ last.op = "missing"
    /\ result = "ParserError"
    /\ document # None
    /\ documents[document].sections # <<>>

C10_ParseStartsFresh ==
    last.op = "open" =>
        /\ section_stack = <<>>
        /\ current_section = None
        /\ table_buffer = <<>>
        /\ ~is_in_table
        /\ table_count = 0
        /\ ~seen_document_title

\* The Section object `sec` with the Sections below it, as one value
RECURSIVE SectionTree(_)
SectionTree(sec) ==
    [name |-> sections[sec].name, raw_name |-> sections[sec].raw_name,
     content |-> sections[sec].content, level |-> sections[sec].level,
     subsections |-> [i \in 1..Len(sections[sec].subsections) |->
                         SectionTree(sections[sec].subsections[i])]]

\* The built Document `ld` has the title, section tree, tables and references
\* of the Document object d
SameDocument(ld, d) ==
    /\ ld.built
    /\ ld.title = documents[d].title
    /\ ld.sections = [i \in 1..Len(documents[d].sections) |->
                         SectionTree(documents[d].sections[i])]
    /\ ld.tables = documents[d].tables
    /\ ld.references = documents[d].references

\* C7: from_dict applied to the to_dict of a Document, and from_json applied
\* to its to_json, build a Document with the same title, section tree,
\* tables and references.
C7_RoundTrip ==
    [][(\/ /\ last'.op = "from_dict"
           /\ wire.form = "dict"
           /\ wire.data = DocumentToDict(sections, documents[wire.of])
        \/ /\ last'.op = "from_json"
           /\ wire.form = "json"
           /\ wire.data = JsonDumps(DocumentToDict(sections, documents[wire.of])))
       => SameDocument(loaded', wire.of)]_vars

\* A Document with a nested section holding content, a table with headers and
\* a reference has gone through to_dict and from_dict.
C7_Witness ==
    /\ last.op = "from_dict"
    /\ SameDocument(loaded, wire.of)
    /\ loaded.tables # <<>>
    /\ loaded.tables[1].headers # <<>>
    /\ loaded.references # <<>>
    /\ \E i \in 1..Len(loaded.sections) :
          /\ loaded.sections[i].subsections # <<>>
          /\ loaded.sections[i].subsections[1].content # <<>>
          /\ loaded.sections[i].raw_name # loaded.sections[i].name

\* The Section object `sec` of the heap `secs` with the Sections below it
RECURSIVE TreeOf(_, _)
TreeOf(secs, sec) ==
    [name |-> secs[sec].name, raw_name |-> secs[sec].raw_name,
     content |-> secs[sec].content, level |-> secs[sec].level,
     subsections |-> [i \in 1..Len(secs[sec].subsections) |->
                         TreeOf(secs, secs[sec].subsections[i])]]

\* Everything reachable from the Document object d: its fields and the trees
\* of its top-level sections
DocumentValue(secs, docs, d) ==
    [title |-> docs[d].title, metadata |-> docs[d].metadata,
     sections |-> [i \in 1..Len(docs[d].sections) |-> TreeOf(secs, docs[d].sections[i])],
     tables |-> docs[d].tables, references |-> docs[d].references]

\* The Document object d has been returned by its parse_file call
Returned(d) == d < Len(documents) \/ (d = Len(documents) /\ pc = "idle")

\* C11: no step of the parser changes a Document that a parse has already
\* returned: its sections, their subsections and content, its tables and its
\* references stay what they were at the return.
C11_ReturnedDocumentFrozen ==
    [][\A d \in 1..Len(documents) :
          Returned(d) => DocumentValue(sections', documents', d) =
                         DocumentValue(sections, documents, d)]_vars

\* The text `content` as the lines it holds
ContentLines(content) == SplitLines(content)

\* The lines read by the parse that has just returned are those of `input`
HasParsed(input) ==
    /\ last.op = "eof"
    /\ result = "returned"
    /\ LET read == ReadInto(lines_read, returned)
       IN  [i \in 1..Len(read) |-> read[i].line] = input

\* C12: parsing the 8 lines of the scenario yields exactly one top-level
\* Section "Executive Summary" at level 2 with no subsections and the content
\* "Some text.", exactly one Table with headers Name, Value and the single
\* row A, 1, and exactly one Reference 1, "Example citation.".
C12_ExampleResult ==
    HasParsed(Example) =>
        /\ Len(TopSections(returned)) = 1
        /\ LET sec == sections[TopSections(returned)[1]]
           IN  /\ sec.name = Drop(Example[2], 3)
               /\ sec.level = 2
               /\ sec.subsections = <<>>
               /\ ContentLines(sec.content) = <<Example[3]>>
        /\ Len(documents[returned].tables) = 1
        /\ documents[returned].tables[1].headers = <<<<"N", "a", "m", "e">>, <<"V", "a", "l", "u", "e">>>>
        /\ documents[returned].tables[1].rows = <<<<<<"A">>, <<"1">>>>>>
        /\ documents[returned].references =
              <<[id |-> <<"1">>, text |-> Drop(Example[8], 4)]>>

\* The step extracts a Table from the buffered lines: a blank line while
\* buffering, or the end of the input
ExtractsTable ==
    /\ pc = "scanning"
    /\ is_in_table
    /\ \/ last'.op = "eof"
       \/ last'.op = "read" /\ last'.kind = "blank"

\* C13: a Table extracted from a buffer of n >= 2 lines has the trimmed cells
\* of buffered line 0 as headers and the trimmed cells of buffered lines
\* 2..n-1, in order, as rows (n-2 rows, whatever their width); buffered line 1
\* is skipped whatever it holds.
C13_HeaderAndRows ==
    [][(ExtractsTable /\ Len(table_buffer) >= 2)
       => /\ Len(documents'[document].tables) = Len(documents[document].tables) + 1
          /\ LET table == LastOf(documents'[document].tables)
             IN  /\ table.headers = Cells(table_buffer[1])
                 /\ table.rows = [i \in 1..(Len(table_buffer) - 2) |->
                                     Cells(table_buffer[i + 2])]]_vars

\* A Table has been extracted whose second buffered line was a data row, not
\* a separator, and whose rows differ in width from each other and from the
\* headers.
C13_Witness ==
    /\ last.op = "read" /\ last.kind = "blank"
    /\ documents[document].tables # <<>>
    /\ LET table == LastOf(documents[document].tables)
       IN  /\ Len(table.headers) = 1
           /\ Len(table.rows) = 2
           /\ Len(table.rows[1]) = 2
           /\ Len(table.rows[2]) = 1

\* A Table has been extracted from a header row and a separator alone
C13_WitnessNoRows ==
    /\ last.op = "eof"
    /\ result = "returned"
    /\ Len(documents[returned].tables) = 1
    /\ documents[returned].tables[1].headers = <<<<"a">>, <<"b">>>>
    /\ documents[returned].tables[1].rows = <<>>

\* The line has the citation form and is neither a header nor a table line
IsCitationLine(line) ==
    /\ ReferenceMatch(line).matched
    /\ ~HeaderMatch(line).matched
    /\ ~TableRowMatch(line)
    /\ ~TableSeparatorMatch(line)

\* The (id, text) pairs of the citation lines among `read`, in order
RECURSIVE CitationsOf(_)
CitationsOf(read) ==
    IF read = <<>> THEN <<>>
    ELSE LET m == ReferenceMatch(read[1].line)
         IN  (IF IsCitationLine(read[1].line)
              THEN <<[id |-> m.id, text |-> m.text]>>
              ELSE <<>>) \o CitationsOf(Tail(read))

\* A parse is under way or has just ended
InParse == pc = "scanning" \/ last.op = "eof"

\* C14: the references of the document are, in input order and with
\* duplicates kept, exactly the (id, text) pairs of the citation lines read,
\* whether or not a section or a table buffer was open when they were read.
C14_ReferencesAreCitations ==
    InParse => documents[document].references =
                  CitationsOf(ReadInto(lines_read, document))

\* A returned document holds the same citation twice and another one between
\* them, one read before any section, one read in a section while a table
\* was buffered.
C14_Witness ==
    /\ last.op = "eof"
    /\ result = "returned"
    /\ Len(documents[returned].references) = 3
    /\ documents[returned].references[1] = documents[returned].references[3]
    /\ documents[returned].references[2].id = <<"2", "2">>
    /\ documents[returned].references[2].text = <<"q">>
    /\ \E i, j \in 1..Len(lines_read) :
          /\ IsCitationLine(lines_read[i].line)
          /\ lines_read[i].current = None
          /\ IsCitationLine(lines_read[j].line)
          /\ lines_read[j].in_table
          /\ lines_read[j].current # None

\* C15: the levels of the sections on the open-ancestors stack increase
\* strictly from the bottom to the top, after every line processed.
C15_StackLevelsIncrease ==
    \A i, j \in 1..Len(section_stack) :
        i < j => sections[section_stack[i]].level < sections[section_stack[j]].level

\* A header has just replaced the entries of the stack at its own level and
\* deeper: two sections stay open below it, and the last section created
\* before it is no longer on the stack.
C15_Witness ==
    /\ IsHeaderStep
    /\ Len(section_stack) = 2
    /\ LastOf(section_stack) = Len(sections)
    /\ \E k \in 1..Len(sections) - 1 :
          /\ \A i \in 1..Len(section_stack) : section_stack[i] # k
          /\ \E i \in 1..Len(section_stack) : section_stack[i] < k

\* The line is plain text: not blank, and neither header, table line nor
\* citation
IsPlainText(line) ==
    /\ Strip(line) # <<>>
    /\ ~HeaderMatch(line).matched
    /\ ~TableRowMatch(line)
    /\ ~TableSeparatorMatch(line)
    /\ ~ReferenceMatch(line).matched

\* The plain-text lines among `lines`, in order
RECURSIVE PlainOf(_)
PlainOf(lines) ==
    IF lines = <<>> THEN <<>>
    ELSE (IF IsPlainText(lines[1]) THEN <<lines[1]>> ELSE <<>>) \o PlainOf(Tail(lines))

\* The lines among `read` that were read while a section was open and the
\* Section object k was the most recently created one, in order
RECURSIVE ReadUnder(_, _)
ReadUnder(read, k) ==
    IF read = <<>> THEN <<>>
    ELSE (IF read[1].current # None /\ read[1].created = k
          THEN <<read[1].line>>
          ELSE <<>>) \o ReadUnder(Tail(read), k)

\* C16: after a parse, the plain-text lines in the content of every section
\* are, in input order, exactly the plain-text lines read while a section was
\* open and that section was the most recently created one; so a plain-text
\* line read before any Section exists is in no section's content.
C16_TextGoesToLatestSection ==
    (last.op = "eof" /\ result = "returned") =>
        \A k \in 1..Len(sections) :
            PlainOf(ContentLines(sections[k].content)) = PlainOf(ReadUnder(lines_read, k))

\* A returned document whose section holds two different lines of text
\* written by two flushes, with a table between them, while a line of text
\* read before the section was created is in no content.
C16_Witness ==
    /\ last.op = "eof"
    /\ result = "returned"
    /\ Len(sections) = 1
    /\ ContentLines(sections[1].content) = <<<<"u">>, <<"t">>>>
    /\ IsPlainText(lines_read[1].line)
    /\ lines_read[1].created = 0
    /\ documents[returned].tables # <<>>
    /\ Len(lines_read) = 5

\* C17: the lines of one table buffer are consecutive lines of the input: a
\* table line is only added to lines already buffered when the line read
\* just before it was a table line too.
C17_TableLinesContiguous ==
    [][(/\ pc = "scanning"
        /\ last'.op = "read" /\ last'.kind = "table"
        /\ table_buffer # <<>>)
       => (last.op = "read" /\ last.kind = "table")]_vars

\* The line is one of `words`, blanks, a number of digits and dots, one of
\* `colons`, blanks and a caption text, and nothing else
HasCaptionShape(line, words, colons) ==
    /\ Len(line) >= 5
    /\ Take(line, 5) \in words
    /\ \E i, j, k \in 6..Len(line), colon \in colons :
          /\ i < j
          /\ j + Len(colon) < k
          /\ k < Len(line)
          /\ \A p \in 6..i : line[p] \in WhiteSpace
          /\ \A p \in (i + 1)..j : line[p] \in DigitChars \cup {"."}
          /\ SubSeq(line, j + 1, j + Len(colon)) = colon
          /\ \A p \in (j + Len(colon) + 1)..k : line[p] \in WhiteSpace

\* The caption of the n-th table extracted while the section with the content
\* lines `lines` is the current one: the first of the last five lines that
\* has the caption shape, or "Table <n>"
CaptionFor(lines, n, words, colons) ==
    LET hits == {i \in 1..Len(lines) : /\ i > Len(lines) - 5
                                       /\ HasCaptionShape(lines[i], words, colons)}
    IN  IF hits = {} THEN DefaultCaption(n)
        ELSE lines[CHOOSE i \in hits : \A j \in hits : i <= j]

\* The step extracts a Table with the caption that CaptionFor gives for the
\* content of the current section, or with "Table <n>" when no section is open
ExtractsWithCaption(words, colons) ==
    (ExtractsTable /\ table_buffer # <<>>)
    => LastOf(documents'[document].tables).caption =
          IF current_section = None
          THEN DefaultCaption(table_count')
          ELSE CaptionFor(ContentLines(sections'[current_section].content),
                          table_count', words, colons)

\* C18 as stated: the caption of an extracted Table is the first of the last
\* 5 lines of the current section's content of the form
\* "Table <number>: <caption>", and "Table <n>" when there is none or when no
\* section is open.
C18_CaptionFromLastFive ==
    [][ExtractsWithCaption({<<"T", "a", "b", "l", "e">>}, {<<":">>})]_vars

\* C18 amended: the same, for lines of the form "Table" or "TABLE", blanks, a
\* number of digits and dots, an optional colon, blanks and a caption text.
C18_CaptionFromLastFiveAnyForm ==
    [][ExtractsWithCaption({<<"T", "a", "b", "l", "e">>, <<"T", "A", "B", "L", "E">>},
                           {<<":">>, <<>>})]_vars

\* A Table has got the caption "Table 1" although the content of the current
\* section holds a caption line: the line is further back than the last five.
C18_Witness ==
    /\ last.op \in {"eof", "read"}
    /\ current_section # None
    /\ Len(documents[document].tables) = 1
    /\ documents[document].tables[1].caption = DefaultCaption(1)
    /\ LET lines == ContentLines(sections[current_section].content)
       IN  /\ Len(lines) > 5
           /\ lines[1] \in {CaptionColon, CaptionCapitals}
           /\ \A i \in 2..Len(lines) : lines[i] = CaptionText

\* The number of marker characters at the start of the line
LeadingMarkers(line) == RunFrom(line, 1, {"#"})

\* C19: a line treated as a header gets the number of marker characters at
\* its start as level, also in the Section created for it, and that number
\* is between 1 and 6.
C19_LevelIsMarkerCount ==
    [][(pc = "scanning" /\ last'.op = "read" /\ last'.kind = "header")
       => LET n == LeadingMarkers(LastOf(lines_read').line)
          IN  /\ n \in 1..6
              /\ last'.level = n
              /\ Len(sections') > Len(sections) => LastOf(sections').level = n]_vars

\* The line is a table row or a separator, and not a header
IsTableLine(line) ==
    /\ ~HeaderMatch(line).matched
    /\ TableRowMatch(line) \/ TableSeparatorMatch(line)

\* The table buffers that the lines `read` have filled, in order: a buffer
\* ends with a blank line read while buffering and with the end of `read`;
\* `open` holds the lines of the buffer being filled
RECURSIVE BuffersOf(_, _)
BuffersOf(read, open) ==
    IF read = <<>> THEN (IF open = <<>> THEN <<>> ELSE <<open>>)
    ELSE IF IsTableLine(read[1].line)
    THEN BuffersOf(Tail(read), Append(open, read[1].line))
    ELSE IF read[1].in_table /\ Strip(read[1].line) = <<>>
    THEN (IF open = <<>> THEN <<>> ELSE <<open>>) \o BuffersOf(Tail(read), <<>>)
    ELSE BuffersOf(Tail(read), open)

\* The buffers of two lines or more among `buffers`, in order
RECURSIVE LongBuffers(_)
LongBuffers(buffers) ==
    IF buffers = <<>> THEN <<>>
    ELSE (IF Len(buffers[1]) >= 2 THEN <<buffers[1]>> ELSE <<>>)
         \o LongBuffers(Tail(buffers))

\* The header rows of the tables among `tables` that have one, in order
RECURSIVE HeaderRows(_)
HeaderRows(tables) ==
    IF tables = <<>> THEN <<>>
    ELSE (IF tables[1].headers # <<>> THEN <<tables[1].headers>> ELSE <<>>)
         \o HeaderRows(Tail(tables))

\* C20: when a parse has reached the end of its input, nothing is left
\* pending: the table buffer is empty and the parser is not buffering, the
\* plain-text lines read for a section are all in its content, and every
\* buffer of two or more table lines, the one open at the end included, has
\* given a Table.
C20_FinalizationFlushes ==
    (last.op = "eof" /\ result = "returned") =>
        /\ table_buffer = <<>>
        /\ ~is_in_table
        /\ \A k \in 1..Len(sections) :
              PlainOf(ReadUnder(lines_read, k)) = PlainOf(ContentLines(sections[k].content))
        /\ LET long == LongBuffers(BuffersOf(ReadInto(lines_read, returned), <<>>))
           IN  HeaderRows(documents[returned].tables) =
                  [i \in 1..Len(long) |-> Cells(long[i][1])]

\* The input has ended while a table of two lines was buffered and a line of
\* text read after them was pending: the Table is in the document and the
\* line in the content of the section.
C20_Witness ==
    /\ last.op = "eof"
    /\ result = "returned"
    /\ lines_read # <<>>
    /\ LastOf(lines_read).in_table
    /\ IsPlainText(LastOf(lines_read).line)
    /\ LastOf(lines_read).current # None
    /\ documents[returned].tables # <<>>
    /\ LastOf(documents[returned].tables).headers = <<<<"a">>, <<"b">>>>
    /\ Len(BuffersOf(lines_read, <<>>)) = 1
    /\ ContentLines(sections[current_section].content) = <<<<"t">>>>

\* The Section objects in the tree below the Section objects `roots`
RECURSIVE Below(_)
Below(roots) ==
    IF roots = <<>> THEN {}
    ELSE {roots[1]} \cup Below(sections[roots[1]].subsections) \cup Below(Tail(roots))

\* C21: the advisory check reports an expected name as missing exactly when
\* no Section of the parsed tree, at any depth and under any top-level
\* section, has a name that contains it, letter case aside; the parse
\* returns all the same.
C21_MissingIffNowhere ==
    last.op = "eof" =>
        /\ result = "returned"
        /\ \A i \in 1..Len(expected_sections) :
              (\E k \in 1..Len(missing_sections) : missing_sections[k] = expected_sections[i])
              <=> ~ \E sec \in Below(documents[returned].sections) :
                       IsIn(LowerOf(expected_sections[i]), LowerOf(sections[sec].name))

\* How many times x occurs in the sequence s
RECURSIVE Occurrences(_, _)
Occurrences(s, x) ==
    IF s = <<>> THEN 0
    ELSE (IF s[1] = x THEN 1 ELSE 0) + Occurrences(Tail(s), x)

\* How many places hold the Section object sec: top-level lists of Documents
\* and subsection lists of Sections
RECURSIVE PlacesInDocuments(_, _)
PlacesInDocuments(d, sec) ==
    IF d = 0 THEN 0
    ELSE Occurrences(documents[d].sections, sec) + PlacesInDocuments(d - 1, sec)

RECURSIVE PlacesInSections(_, _)
PlacesInSections(p, sec) ==
    IF p = 0 THEN 0
    ELSE Occurrences(sections[p].subsections, sec) + PlacesInSections(p - 1, sec)

\* The header lines among `read`, and those of them that were suppressed as
\* the title marker
RECURSIVE HeadersRead(_)
HeadersRead(read) ==
    IF read = <<>> THEN 0
    ELSE (IF HeaderMatch(read[1].line).matched THEN 1 ELSE 0) + HeadersRead(Tail(read))

RECURSIVE MarkersRead(_)
MarkersRead(read) ==
    IF read = <<>> THEN 0
    ELSE (IF /\ HeaderMatch(read[1].line).matched
             /\ HeaderMatch(read[1].line).hashes = 1
             /\ ~read[1].seen_title
          THEN 1 ELSE 0) + MarkersRead(Tail(read))

\* Every Section object is held at exactly one place
AttachedOnce ==
    \A sec \in 1..Len(sections) :
        PlacesInDocuments(Len(documents), sec) + PlacesInSections(Len(sections), sec) = 1

\* C22: every Section created is attached at exactly one place, and the tree
\* of the Document a parse returns holds as many Sections as the parse has
\* read header lines, less the one suppressed as the title marker if any.
C22_AttachedExactlyOnce ==
    /\ AttachedOnce
    /\ (last.op = "eof" /\ result = "returned") =>
          LET read == ReadInto(lines_read, returned)
          IN  Cardinality(Below(documents[returned].sections)) =
                 HeadersRead(read) - MarkersRead(read)

\* C23: after every line a parse has processed, the stack is empty exactly
\* when no section is current; otherwise the current section is its top, its
\* bottom is the last top-level section of the document being built, and
\* every entry is the last subsection of the entry below it.
C23_StackIsRightmostPath ==
    (last.op = "read" /\ pc = "scanning") =>
        /\ section_stack = <<>> <=> current_section = None
        /\ section_stack # <<>> =>
              /\ current_section = LastOf(section_stack)
              /\ documents[document].sections # <<>>
              /\ section_stack[1] = LastOf(documents[document].sections)
              /\ \A i \in 1..(Len(section_stack) - 1) :
                    /\ sections[section_stack[i]].subsections # <<>>
                    /\ section_stack[i + 1] = LastOf(sections[section_stack[i]].subsections)

\* The citation lines among `lines`, in order
RECURSIVE CitationLinesOf(_)
CitationLinesOf(lines) ==
    IF lines = <<>> THEN <<>>
    ELSE (IF IsCitationLine(lines[1]) THEN <<lines[1]>> ELSE <<>>)
         \o CitationLinesOf(Tail(lines))

\* C24: after a parse, every citation line read while a section was open is
\* in the content of that section, as text and in input order, and is a
\* Reference of the document as well.
C24_CitationIsReferenceAndText ==
    (last.op = "eof" /\ result = "returned") =>
        /\ \A k \in 1..Len(sections) :
              CitationLinesOf(ContentLines(sections[k].content)) =
                 CitationLinesOf(ReadUnder(lines_read, k))
        /\ \A i \in 1..Len(lines_read) :
              (IsCitationLine(lines_read[i].line) /\ lines_read[i].current # None)
              => \E r \in 1..Len(documents[lines_read[i].doc].references) :
                    LET ref == documents[lines_read[i].doc].references[r]
                    IN  /\ ref.id = ReferenceMatch(lines_read[i].line).id
                        /\ ref.text = ReferenceMatch(lines_read[i].line).text

\* A returned document has a subsection whose content holds two citation
\* lines, both of them References of the document too.
C24_Witness ==
    /\ last.op = "eof"
    /\ result = "returned"
    /\ Len(documents[returned].references) = 2
    /\ \E k \in 1..Len(sections) :
          /\ sections[k].level = 3
          /\ ContentLines(sections[k].content) =
                <<<<"[", "2", "2", "]", " ", " ", "q">>, <<"[", "1", "]", " ", "r">>>>

\* C25: Document.from_dict leaves the dictionary it is given unchanged, and a
\* second call on the same dictionary builds a Document with the same tables
\* and references as the first.
C25_FromDictLeavesDictionary ==
    [][(last'.op = "from_dict" /\ wire.form = "dict") =>
          /\ wire'.data = wire.data
          /\ last.op = "from_dict" =>
                /\ loaded'.tables = loaded.tables
                /\ loaded'.references = loaded.references]_vars

====
